---- MODULE Spec2Model ----
(***************************************************************************)
(* Model of the fan controller of src/app.py: the background polling loop  *)
(* (fan_control_loop with init_serial, set_fan and get_ssd_temp), the      *)
(* settings handler (update_settings with derive_byte_commands and         *)
(* save_settings) and the status page (index), as threads interleaved      *)
(* at the granularity of their lock sections and blocking calls.           *)
(*                                                                         *)
(* Representation.                                                         *)
(*  - A Python float is a record [nan, milli]: milli is the value in       *)
(*    thousandths (the sensor file holds millidegrees and the code         *)
(*    divides by 1000.0), nan marks float('nan'), which float() parses.    *)
(*  - Python None is the empty tuple and a present optional value x is     *)
(*    the one-element tuple <<x>>.                                         *)
(*  - Text typed into the form is a TLA+ string for the numeric fields     *)
(*    (parsed by the tables ParseFloat and ParseInt) and a tuple of        *)
(*    characters for the hex commands and the sensor path (processed by    *)
(*    Strip and FromHex character by character).                           *)
(*  - Instants are whole seconds since the start of the process; the       *)
(*    clock advances while the loop sleeps in stop_thread.wait.            *)
(*  - The settings keys serial_port and baud_rate are left out: no         *)
(*    handler writes them and the link is modelled by its outcomes.        *)
(***************************************************************************)
EXTENDS Integers, Sequences, FiniteSets, TLC

(***************************************************************************)
(* Bounds of the model.                                                    *)
(***************************************************************************)
\* The clock stops advancing after this many hours.
MaxHours == 2
\* update_settings requests served in one run.
MaxUpdates == 1
\* Events of the log a history summary is asked over.
MaxEvents == 3

(***************************************************************************)
(* Program constants and elementary values.                                *)
(***************************************************************************)
HourSeconds == 3600

None == <<>>
Some(x) == <<x>>
Get(o) == o[1]

Fl(m) == [nan |-> FALSE, milli |-> m]
NaN == [nan |-> TRUE, milli |-> 0]
\* Python's float comparisons: every comparison with nan is False.
FloatGE(a, b) == ~a.nan /\ ~b.nan /\ a.milli >= b.milli
FloatLT(a, b) == ~a.nan /\ ~b.nan /\ a.milli < b.milli

Max(a, b) == IF a >= b THEN a ELSE b

HexDigits == {"0", "1", "2", "3", "4", "5", "6", "7", "8", "9",
              "A", "B", "C", "D", "E", "F"}
HexValue(c) ==
    CASE c = "0" -> 0 [] c = "1" -> 1 [] c = "2" -> 2 [] c = "3" -> 3
      [] c = "4" -> 4 [] c = "5" -> 5 [] c = "6" -> 6 [] c = "7" -> 7
      [] c = "8" -> 8 [] c = "9" -> 9 [] c = "A" -> 10 [] c = "B" -> 11
      [] c = "C" -> 12 [] c = "D" -> 13 [] c = "E" -> 14 [] c = "F" -> 15

\* str.strip(): leading and trailing blanks removed.
RECURSIVE StripLeft(_)
StripLeft(s) ==
    IF s # <<>> /\ Head(s) = " " THEN StripLeft(Tail(s)) ELSE s
RECURSIVE StripRight(_)
StripRight(s) ==
    IF s # <<>> /\ s[Len(s)] = " " THEN StripRight(SubSeq(s, 1, Len(s) - 1)) ELSE s
Strip(s) == StripRight(StripLeft(s))

\* bytes.fromhex(): blanks between bytes are skipped, every byte is two hex
\* digits; None stands for the ValueError.
RECURSIVE FromHex(_)
FromHex(s) ==
    IF s = <<>> THEN Some(<<>>)
    ELSE IF Head(s) = " " THEN FromHex(Tail(s))
    ELSE IF Len(s) >= 2 /\ s[1] \in HexDigits /\ s[2] \in HexDigits
         THEN LET rest == FromHex(SubSeq(s, 3, Len(s)))
              IN  IF rest = None THEN None
                  ELSE Some(<<16 * HexValue(s[1]) + HexValue(s[2])>> \o Get(rest))
    ELSE None

\* float(text): None stands for the ValueError.
ParseFloat(t) ==
    CASE t = "49.5" -> Some(Fl(49500))
      [] t = "45.0" -> Some(Fl(45000))
      [] t = "47" -> Some(Fl(47000))
      [] t = "50" -> Some(Fl(50000))
      [] t = "nan" -> Some(NaN)
      [] OTHER -> None

\* int(text): None stands for the ValueError.
ParseInt(t) ==
    CASE t = "0" -> Some(0)
      [] t = "1" -> Some(1)
      [] t = "2" -> Some(2)
      [] t = "3000" -> Some(3000)
      [] t = "6000" -> Some(6000)
      [] OTHER -> None

(***************************************************************************)
(* Settings: defaults, loading, derived command bytes.                     *)
(***************************************************************************)
HexOpenDefault == <<"A", "0", "0", "1", "0", "1", "A", "2">>
HexCloseDefault == <<"A", "0", "0", "1", "0", "0", "A", "1">>
\* The sensor path, shortened: the handlers only test it for emptiness.
PathDefault == <<"/", "s">>

DEFAULT_SETTINGS ==
    [threshold_ceiling |-> Fl(49500),
     threshold_floor |-> Fl(45000),
     command_open_hex |-> HexOpenDefault,
     command_close_hex |-> HexCloseDefault,
     temp_path |-> PathDefault,
     check_interval_seconds |-> 2,
     history_duration_hours |-> 24]

\* derive_byte_commands: the bytes of both commands, the default bytes
\* standing in for a command that does not decode, and whether both decoded.
DeriveByteCommands(open_hex, close_hex) ==
    LET o == FromHex(open_hex)
        c == FromHex(close_hex)
    IN  [open |-> IF o = None THEN Get(FromHex(DEFAULT_SETTINGS.command_open_hex))
                  ELSE Get(o),
         close |-> IF c = None THEN Get(FromHex(DEFAULT_SETTINGS.command_close_hex))
                   ELSE Get(c),
         valid |-> o # None /\ c # None]

\* What derive_byte_commands returns: (open, close), or (None, None) as soon
\* as either command does not decode.
DeriveReturn(open_hex, close_hex) ==
    LET d == DeriveByteCommands(open_hex, close_hex)
    IN  IF d.valid THEN <<Some(d.open), Some(d.close)>> ELSE <<None, None>>

\* timedelta(hours = h), in seconds.
Hours(h) == h * HourSeconds

\* load_settings: the file's values over the defaults (the defaults when the
\* file is missing), interval and retention raised to at least 1.
LoadSettings(file) ==
    LET s == IF file = None THEN DEFAULT_SETTINGS ELSE Get(file)
    IN  [s EXCEPT !.history_duration_hours = Max(1, @),
                  !.check_interval_seconds = Max(1, @)]

\* The settings files the process may start from.
StartupFiles ==
    {Some([DEFAULT_SETTINGS EXCEPT !.check_interval_seconds = 3000,
                                   !.history_duration_hours = 1])}

(***************************************************************************)
(* update_settings: validation of a submitted form.                        *)
(***************************************************************************)
EmptyDict == [k \in {} |-> None]
NoErrors == [errors |-> <<>>, updated |-> EmptyDict]
Reject(e) == [errors |-> <<e>>, updated |-> EmptyDict]
Accept(k, v) == [errors |-> <<>>, updated |-> (k :> v)]
Join(a, b) == [errors |-> a.errors \o b.errors, updated |-> a.updated @@ b.updated]

CheckThresholds(new_ceiling, new_floor) ==
    IF FloatGE(new_floor, new_ceiling)
    THEN Reject("floor_not_below_ceiling")
    ELSE Join(Accept("threshold_ceiling", new_ceiling),
              Accept("threshold_floor", new_floor))

CheckCommands(open_hex, close_hex) ==
    LET r == DeriveReturn(open_hex, close_hex)
    IN  Join(IF r[1] = None THEN Reject("invalid_on_hex")
             ELSE Accept("command_open_hex", open_hex),
             IF r[2] = None THEN Reject("invalid_off_hex")
             ELSE Accept("command_close_hex", close_hex))

CheckTempPath(temp_path) ==
    IF temp_path = <<>> THEN Reject("empty_temp_path")
    ELSE Accept("temp_path", temp_path)

CheckInterval(text) ==
    LET n == ParseInt(text)
    IN  IF n = None THEN Reject("interval_bad_number")
        ELSE IF Get(n) <= 0 THEN Reject("interval_not_positive")
        ELSE Accept("check_interval_seconds", Get(n))

CheckHistory(text) ==
    LET n == ParseInt(text)
    IN  IF n = None THEN Reject("history_bad_number")
        ELSE IF Get(n) <= 0 THEN Reject("history_not_positive")
        ELSE Accept("history_duration_hours", Get(n))

\* The try block of update_settings: a threshold that float() rejects raises
\* ValueError out of the block, so none of the later fields is looked at.
ValidateForm(form) ==
    LET c == ParseFloat(form.threshold_ceiling)
        f == ParseFloat(form.threshold_floor)
    IN  IF c = None \/ f = None
        THEN Reject("bad_number_format")
        ELSE Join(CheckThresholds(Get(c), Get(f)),
             Join(CheckCommands(Strip(form.command_open_hex),
                                Strip(form.command_close_hex)),
             Join(CheckTempPath(Strip(form.temp_path)),
             Join(CheckInterval(form.check_interval_seconds),
                  CheckHistory(form.history_duration_hours)))))

\* current_settings.copy() updated with the validated fields, interval and
\* retention raised to at least 1.
SettingsToSave(current, updated) ==
    LET s == [k \in DOMAIN current |->
                 IF k \in DOMAIN updated THEN updated[k] ELSE current[k]]
    IN  [s EXCEPT !["history_duration_hours"] = Max(1, @),
                  !["check_interval_seconds"] = Max(1, @)]

\* The forms submitted in the runs: the page's form with the startup values,
\* and variants of it.
BaseForm ==
    [threshold_ceiling |-> "49.5",
     threshold_floor |-> "45.0",
     command_open_hex |-> HexOpenDefault,
     command_close_hex |-> HexCloseDefault,
     temp_path |-> PathDefault,
     check_interval_seconds |-> "3000",
     history_duration_hours |-> "1"]

\* A form that changes every setting, and one whose thresholds are refused
\* while its other fields are valid.
Forms ==
    {[BaseForm EXCEPT !.threshold_ceiling = "47",
                      !.command_close_hex = <<" ", "B", "1">>,
                      !.check_interval_seconds = "6000",
                      !.history_duration_hours = "2"],
     [BaseForm EXCEPT !.threshold_floor = "50",
                      !.check_interval_seconds = "6000"]}

\* The forms of the validation runs: every combination of valid and invalid
\* values of the seven fields.
AllForms ==
    [threshold_ceiling : {"49.5", "47", "abc", "nan"},
     threshold_floor : {"45.0", "50", "abc"},
     command_open_hex : {HexOpenDefault, <<"A", "0", "G">>},
     command_close_hex : {HexCloseDefault, <<" ", "B", "1">>, <<"B">>},
     temp_path : {PathDefault, <<" ">>, <<"/", "t", " ">>},
     check_interval_seconds : {"6000", "0", "x"},
     history_duration_hours : {"2", "0", "x"}]

(***************************************************************************)
(* Error messages.  A message is named by its fixed text; the substring    *)
(* tests of the code are tables over the messages.                         *)
(***************************************************************************)
\* "serial port" in last_error.lower()
HasSerialPort(m) == m \in {"Cannot open serial port", "Unexpected error opening serial port"}
\* "Serial error sending" in last_error or "Error sending" in last_error
HasSending(m) == m \in {"Serial error sending", "Error sending"}
\* "Temperature file" in last_error
HasTemperatureFile(m) == m = "Temperature file not found"
\* "reading temperature" in last_error
HasReadingTemperature(m) == m = "Error reading temperature"

\* get_ssd_temp's rule for recording its error msg over last_error e.
MergeTempError(e, msg) ==
    LET own == CASE msg = "Invalid temperature path provided" ->
                      HasTemperatureFile(Get(e)) \/ HasReadingTemperature(Get(e))
                 [] msg = "Temperature file not found" -> HasTemperatureFile(Get(e))
                 [] OTHER -> HasReadingTemperature(Get(e))
    IN  IF e = None \/ own THEN Some(msg)
        ELSE IF HasSerialPort(Get(e)) THEN e
        ELSE Some(msg)

(***************************************************************************)
(* The environment.                                                        *)
(***************************************************************************)
\* Contents of the sensor file, in millidegrees.
Readings == {44900, 45000, 47000, 49500}
\* What reading the sensor file gives in environment e: any content or a
\* failure in "any"; one temperature and no failure in "hot", "cold", "warm".
SensorReadings(e) ==
    CASE e = "hot" -> {49500} [] e = "cold" -> {44900} [] e = "warm" -> {47000}
      [] OTHER -> Readings
SensorFailures(e) ==
    IF e = "any" THEN {"Temperature file not found", "Error reading temperature"}
    ELSE {}
\* How opening the port and writing to it end in environment e.
LinkOutcomes(e) ==
    IF e = "any" THEN {"ok", "SerialException", "Exception"} ELSE {"ok"}
Horizon == MaxHours * HourSeconds

\* The logs a summary is asked over: time-ordered events, at most MaxEvents.
EventTimes == {0, 1200, 3600, 4200, 6000, 7200}
TimeOrdered(history) ==
    \A i, j \in DOMAIN history : i < j => history[i][1] <= history[j][1]
RECURSIVE Histories(_)
Histories(n) ==
    IF n = 0 THEN {<<>>}
    ELSE LET shorter == Histories(n - 1)
         IN  shorter \cup {Append(h, <<ts, state>>) :
                              h \in {g \in shorter : Len(g) = n - 1},
                              ts \in EventTimes, state \in BOOLEAN}
EventLogs == {h \in Histories(MaxEvents) : TimeOrdered(h)}
\* The times of the requests, and the settings they find.
RequestTimes == {6000, 7200}
RetentionHours == {1, 2}
CheckIntervals == {600, 3000}

(***************************************************************************)
(* State.                                                                  *)
(***************************************************************************)
VARIABLES
    current_settings,    \* the settings dictionary
    command_open_bytes,  \* derived from current_settings
    command_close_bytes,
    history_duration,    \* derived globals of update_settings, in seconds
    check_interval,
    settings_file,       \* settings.json: Some(settings), or None when unusable
    fan_state,
    current_temp,
    last_error,
    ser,                 \* the serial object: "none", "open" or "closed"
    fan_history,         \* deque of <<timestamp, state>>
    stop_thread,
    state_lock,          \* "free" or the thread holding it
    settings_lock,
    clock,               \* datetime.now(), in seconds
    relay,               \* the last payload written to the link
    env,                 \* "any", or "hot"/"cold" once sensor and link have settled
    loop,                \* the controller thread: pc and locals
    upd,                 \* the thread serving update_settings
    idx,                 \* the thread serving index
    chart                \* the thread serving chart_data

cfgVars == <<current_settings, command_open_bytes, command_close_bytes,
             history_duration, check_interval, settings_file>>
fanVars == <<fan_state, current_temp, last_error, fan_history>>
lockVars == <<state_lock, settings_lock>>
vars == <<current_settings, command_open_bytes, command_close_bytes,
          history_duration, check_interval, settings_file, fan_state,
          current_temp, last_error, ser, fan_history, stop_thread,
          state_lock, settings_lock, clock, relay, env, loop, upd, idx, chart>>

\* A lock that any thread may take at any time.
FreeAlways(lock) == TRUE

\* Whether a thread may take a lock.
Free(lock) == lock = "free"

LoopInit ==
    [pc |-> "start",
     now |-> 0,
     local_ceiling |-> Fl(0),
     local_floor |-> Fl(0),
     local_temp_path |-> <<>>,
     local_check_interval |-> 0,
     local_history_duration |-> 0,
     temp |-> None,
     initial_state |-> FALSE,
     new_state |-> FALSE,
     current_fan_state |-> FALSE,
     state |-> FALSE,
     cmd_open |-> <<>>,
     cmd_close |-> <<>>,
     error_msg |-> None,
     opened |-> FALSE,
     sent |-> FALSE,
     is_ret |-> "",
     sf_ret |-> "",
     gt_ret |-> ""]

UpdIdle == [pc |-> "idle", form |-> None, form_errors |-> <<>>,
            updated_settings |-> EmptyDict, settings_to_save |-> None,
            flash |-> None, served |-> 0]
IdxIdle == [pc |-> "idle", status |-> None, settings |-> None]
ChartIdle == [pc |-> "idle", now |-> 0, local_history_duration |-> 0,
              history_copy_raw |-> <<>>, history_copy |-> <<>>,
              current_fan_state_for_calc |-> FALSE, response |-> None]

InitWith(files, e) ==
    /\ settings_file \in files
    /\ current_settings = LoadSettings(settings_file)
    /\ LET d == DeriveByteCommands(current_settings.command_open_hex,
                                   current_settings.command_close_hex)
       IN  /\ command_open_bytes = d.open
           /\ command_close_bytes = d.close
    /\ history_duration = Hours(current_settings.history_duration_hours)
    /\ check_interval = current_settings.check_interval_seconds
    /\ fan_state = FALSE
    /\ current_temp = None
    /\ last_error = None
    /\ ser = "none"
    /\ fan_history = <<>>
    /\ stop_thread = FALSE
    /\ state_lock = "free"
    /\ settings_lock = "free"
    /\ clock = 0
    /\ relay = None
    /\ env = e
    /\ loop = LoopInit
    /\ upd = UpdIdle
    /\ idx = IdxIdle
    /\ chart = ChartIdle

InitEnv(e) == InitWith(StartupFiles, e)

Init == InitEnv("any")

(***************************************************************************)
(* The controller thread.                                                  *)
(***************************************************************************)
\* A pruning that drops one stale entry at most (an "if" for the "while").
PruneOnce(history, cutoff_time) ==
    IF history # <<>> /\ history[1][1] < cutoff_time
    THEN Tail(history)
    ELSE history

\* The popleft loop: drop the oldest entries while they are before cutoff.
RECURSIVE Prune(_, _)
Prune(history, cutoff_time) ==
    IF history # <<>> /\ history[1][1] < cutoff_time
    THEN Prune(Tail(history), cutoff_time)
    ELSE history

\* A decision with a strict ceiling comparison.
DecideStrictCeiling(t, ceiling, floor, current) ==
    IF FloatLT(ceiling, t) /\ ~current THEN TRUE
    ELSE IF FloatLT(t, floor) /\ current THEN FALSE
    ELSE current

\* A decision on the ceiling alone, without a dead band.
DecideSingleThreshold(t, ceiling, floor, current) ==
    FloatGE(t, ceiling)

\* The hysteresis decision of a cycle.
Decide(t, ceiling, floor, current) ==
    IF FloatGE(t, ceiling) /\ ~current THEN TRUE
    ELSE IF FloatLT(t, floor) /\ current THEN FALSE
    ELSE current

\* An entry every cycle: the last one is as old as the interval.
MarkerDueEachInterval(history, t, interval) ==
    history = <<>> \/ t - history[Len(history)][1] >= interval

\* (now - last).total_seconds() > local_check_interval * 1.5
MarkerDue(history, t, interval) ==
    history = <<>> \/ 2 * (t - history[Len(history)][1]) > 3 * interval

\* The "with state_lock:" blocks of the thread: where each is entered and
\* the pc of its body.
StateSections ==
    [is_rec_acq |-> "is_rec", gt_rec_acq |-> "gt_rec", sf_rec_acq |-> "sf_rec",
     s_temp_acq |-> "s_temp", s_seed_acq |-> "s_seed",
     c_prune_acq |-> "c_prune", c_temp_acq |-> "c_temp",
     c_state_acq |-> "c_state", c_commit_acq |-> "c_commit",
     c_marker_acq |-> "c_marker"]
\* The "with settings_lock:" blocks of the thread.
SettingsSections ==
    [s_cfg_acq |-> "s_cfg", c_cfg_acq |-> "c_cfg_ceiling", sf_cmd_acq |-> "sf_cmd"]

LoopAcquireState ==
    /\ loop.pc \in DOMAIN StateSections
    /\ Free(state_lock)
    /\ state_lock' = "loop"
    /\ loop' = [loop EXCEPT !.pc = StateSections[loop.pc]]
    /\ UNCHANGED <<cfgVars, fanVars, ser, stop_thread, settings_lock, clock, relay, upd, idx, env, chart>>

LoopAcquireSettings ==
    /\ loop.pc \in DOMAIN SettingsSections
    /\ Free(settings_lock)
    /\ settings_lock' = "loop"
    /\ loop' = [loop EXCEPT !.pc = SettingsSections[loop.pc]]
    /\ UNCHANGED <<cfgVars, fanVars, ser, stop_thread, state_lock, clock, relay, upd, idx, env, chart>>

\* The locals of a cycle are dead once the cycle is over: each is assigned
\* again before it is read.
EndCycle(l) ==
    [l EXCEPT !.pc = "wait", !.temp = None, !.new_state = FALSE,
              !.current_fan_state = FALSE, !.state = FALSE, !.cmd_open = <<>>,
              !.cmd_close = <<>>, !.error_msg = None, !.opened = FALSE,
              !.sent = FALSE, !.is_ret = "", !.sf_ret = "", !.gt_ret = ""]

\* ---- init_serial ----
\* serial.Serial(port, rate): the port opens, or raises.
InitSerialOpen ==
    /\ loop.pc = "is_open"
    /\ \E outcome \in LinkOutcomes(env) :
         /\ ser' = IF outcome = "ok" THEN "open" ELSE "none"
         /\ loop' = [loop EXCEPT
                !.pc = "is_rec_acq",
                !.opened = (outcome = "ok"),
                !.error_msg = CASE outcome = "ok" -> None
                                [] outcome = "SerialException" ->
                                      Some("Cannot open serial port")
                                [] OTHER -> Some("Unexpected error opening serial port")]
    /\ UNCHANGED <<cfgVars, fanVars, stop_thread, lockVars, clock, relay, upd, idx, env, chart>>

\* Under state_lock: a success clears a serial-port error, a failure is recorded.
InitSerialRecord ==
    /\ loop.pc = "is_rec"
    /\ last_error' = IF loop.opened
                     THEN IF last_error # None /\ HasSerialPort(Get(last_error))
                          THEN None ELSE last_error
                     ELSE loop.error_msg
    /\ state_lock' = "free"
    /\ loop' = [loop EXCEPT !.pc = loop.is_ret, !.error_msg = None]
    /\ UNCHANGED <<cfgVars, fan_state, current_temp, fan_history, ser, stop_thread,
                   settings_lock, clock, relay, upd, idx, env, chart>>

\* ---- get_ssd_temp ----
\* Reads the sensor file: a temperature, or one of the three failures.
GetSsdTempRead ==
    /\ loop.pc = "gt_read"
    /\ IF loop.local_temp_path = <<>>
       THEN loop' = [loop EXCEPT !.pc = "gt_rec_acq", !.temp = None,
                                 !.error_msg = Some("Invalid temperature path provided")]
       ELSE \/ \E temp_millic \in SensorReadings(env) :
                 loop' = [loop EXCEPT !.pc = loop.gt_ret,
                                      !.temp = Some(Fl(temp_millic))]
            \/ \E msg \in SensorFailures(env) :
                 loop' = [loop EXCEPT !.pc = "gt_rec_acq", !.temp = None,
                                      !.error_msg = Some(msg)]
    /\ UNCHANGED <<cfgVars, fanVars, ser, stop_thread, lockVars, clock, relay, upd, idx, env, chart>>

GetSsdTempRecord ==
    /\ loop.pc = "gt_rec"
    /\ last_error' = MergeTempError(last_error, Get(loop.error_msg))
    /\ state_lock' = "free"
    /\ loop' = [loop EXCEPT !.pc = loop.gt_ret, !.error_msg = None]
    /\ UNCHANGED <<cfgVars, fan_state, current_temp, fan_history, ser, stop_thread,
                   settings_lock, clock, relay, upd, idx, env, chart>>

\* ---- set_fan ----
\* Under settings_lock: the two command payloads are read.
SetFanCommands ==
    /\ loop.pc = "sf_cmd"
    /\ settings_lock' = "free"
    /\ loop' = [loop EXCEPT !.pc = "sf_link",
                            !.cmd_open = command_open_bytes,
                            !.cmd_close = command_close_bytes]
    /\ UNCHANGED <<cfgVars, fanVars, ser, stop_thread, state_lock, clock, relay, upd, idx, env, chart>>

\* A set_fan that gives up on a link that is not open, without reopening it.
SetFanLinkNoReopen ==
    /\ loop.pc = "sf_link"
    /\ loop' = IF ser # "open"
               THEN [loop EXCEPT !.pc = loop.sf_ret, !.sent = FALSE]
               ELSE [loop EXCEPT !.pc = "sf_write"]
    /\ UNCHANGED <<cfgVars, fanVars, ser, stop_thread, lockVars, clock, relay, upd, idx, env, chart>>

\* A link that is not open is reopened first.
SetFanLink ==
    /\ loop.pc = "sf_link"
    /\ loop' = IF ser # "open"
               THEN [loop EXCEPT !.pc = "is_open", !.is_ret = "sf_reopened"]
               ELSE [loop EXCEPT !.pc = "sf_write"]
    /\ UNCHANGED <<cfgVars, fanVars, ser, stop_thread, lockVars, clock, relay, upd, idx, env, chart>>

\* A failed reopen ends set_fan with False.
SetFanReopened ==
    /\ loop.pc = "sf_reopened"
    /\ loop' = IF loop.opened
               THEN [loop EXCEPT !.pc = "sf_write"]
               ELSE [loop EXCEPT !.pc = loop.sf_ret, !.sent = FALSE]
    /\ UNCHANGED <<cfgVars, fanVars, ser, stop_thread, lockVars, clock, relay, upd, idx, env, chart>>

\* ser.write(command): the payload reaches the relay, or the write raises.
SetFanWrite ==
    /\ loop.pc = "sf_write"
    /\ LET command == IF loop.state THEN loop.cmd_open ELSE loop.cmd_close
       IN  \E outcome \in LinkOutcomes(env) :
             /\ relay' = IF outcome = "ok" THEN Some(command) ELSE relay
             /\ loop' = [loop EXCEPT
                    !.pc = "sf_rec_acq",
                    !.sent = (outcome = "ok"),
                    !.error_msg = CASE outcome = "ok" -> None
                                    [] outcome = "SerialException" ->
                                          Some("Serial error sending")
                                    [] OTHER -> Some("Error sending")]
    /\ UNCHANGED <<cfgVars, fanVars, ser, stop_thread, lockVars, clock, upd, idx, env, chart>>

\* Under state_lock: a success clears a send error, a failure is recorded;
\* after a SerialException the port is closed and dropped.
SetFanRecord ==
    /\ loop.pc = "sf_rec"
    /\ last_error' = IF loop.sent
                     THEN IF last_error # None /\ HasSending(Get(last_error))
                          THEN None ELSE last_error
                     ELSE loop.error_msg
    /\ ser' = IF loop.error_msg = Some("Serial error sending") THEN "none" ELSE ser
    /\ state_lock' = "free"
    /\ loop' = [loop EXCEPT !.pc = loop.sf_ret, !.error_msg = None]
    /\ UNCHANGED <<cfgVars, fan_state, current_temp, fan_history, stop_thread,
                   settings_lock, clock, relay, upd, idx, env, chart>>

\* ---- fan_control_loop: startup ----
\* The thread starts with one attempt to open the link.
Start ==
    /\ loop.pc = "start"
    /\ loop' = [loop EXCEPT !.pc = "is_open", !.is_ret = "s_cfg_acq"]
    /\ UNCHANGED <<cfgVars, fanVars, ser, stop_thread, lockVars, clock, relay, upd, idx, env, chart>>

\* Under settings_lock: ceiling, sensor path and retention; then the first read.
StartSettings ==
    /\ loop.pc = "s_cfg"
    /\ settings_lock' = "free"
    /\ loop' = [loop EXCEPT
           !.pc = "gt_read",
           !.gt_ret = "s_got_temp",
           !.local_ceiling = current_settings.threshold_ceiling,
           !.local_temp_path = current_settings.temp_path,
           !.local_history_duration = Hours(current_settings.history_duration_hours)]
    /\ UNCHANGED <<cfgVars, fanVars, ser, stop_thread, state_lock, clock, relay, upd, idx, env, chart>>

\* Without a temperature the fan is assumed OFF.
StartGotTemp ==
    /\ loop.pc = "s_got_temp"
    /\ loop' = IF loop.temp # None
               THEN [loop EXCEPT !.pc = "s_temp_acq"]
               ELSE [loop EXCEPT !.pc = "s_seed_acq", !.initial_state = FALSE,
                                 !.now = clock]
    /\ UNCHANGED <<cfgVars, fanVars, ser, stop_thread, lockVars, clock, relay, upd, idx, env, chart>>

\* A startup whose initial state needs a temperature above the ceiling.
StartTempStrict ==
    /\ loop.pc = "s_temp"
    /\ current_temp' = loop.temp
    /\ state_lock' = "free"
    /\ loop' = [loop EXCEPT !.pc = "s_seed_acq",
                            !.initial_state = FloatLT(loop.local_ceiling, Get(loop.temp)),
                            !.now = clock]
    /\ UNCHANGED <<cfgVars, fan_state, last_error, fan_history, ser, stop_thread,
                   settings_lock, clock, relay, upd, idx, env, chart>>

\* Under state_lock: current_temp; then the initial state from the ceiling.
StartTemp ==
    /\ loop.pc = "s_temp"
    /\ current_temp' = loop.temp
    /\ state_lock' = "free"
    /\ loop' = [loop EXCEPT !.pc = "s_seed_acq",
                            !.initial_state = FloatGE(Get(loop.temp), loop.local_ceiling),
                            !.now = clock]
    /\ UNCHANGED <<cfgVars, fan_state, last_error, fan_history, ser, stop_thread,
                   settings_lock, clock, relay, upd, idx, env, chart>>

\* Under state_lock: the first history entry and fan_state; then set_fan.
StartSeed ==
    /\ loop.pc = "s_seed"
    /\ fan_history' = Append(fan_history, <<loop.now, loop.initial_state>>)
    /\ fan_state' = loop.initial_state
    /\ state_lock' = "free"
    /\ loop' = [loop EXCEPT !.pc = "sf_cmd_acq", !.state = loop.initial_state,
                            !.sf_ret = "loop_test"]
    /\ UNCHANGED <<cfgVars, current_temp, last_error, ser, stop_thread,
                   settings_lock, clock, relay, upd, idx, env, chart>>

\* ---- fan_control_loop: one cycle ----
\* while not stop_thread.is_set(): now = datetime.now()
LoopTest ==
    /\ loop.pc = "loop_test"
    /\ loop' = IF stop_thread
               THEN [loop EXCEPT !.pc = "cleanup"]
               ELSE [loop EXCEPT !.pc = "c_cfg_acq", !.now = clock]
    /\ UNCHANGED <<cfgVars, fanVars, ser, stop_thread, lockVars, clock, relay, upd, idx, env, chart>>

\* Under settings_lock: the first value read.
CycleCeiling ==
    /\ loop.pc = "c_cfg_ceiling"
    /\ loop' = [loop EXCEPT !.pc = "c_cfg_rest",
                            !.local_ceiling = current_settings.threshold_ceiling]
    /\ UNCHANGED <<cfgVars, fanVars, ser, stop_thread, lockVars, clock, relay, upd, idx, env, chart>>

\* Under settings_lock: the other values read.
CycleSettings ==
    /\ loop.pc = "c_cfg_rest"
    /\ settings_lock' = "free"
    /\ loop' = [loop EXCEPT
           !.pc = "c_prune_acq",
           !.local_floor = current_settings.threshold_floor,
           !.local_temp_path = current_settings.temp_path,
           !.local_check_interval = current_settings.check_interval_seconds,
           !.local_history_duration = Hours(current_settings.history_duration_hours)]
    /\ UNCHANGED <<cfgVars, fanVars, ser, stop_thread, state_lock, clock, relay, upd, idx, env, chart>>

\* A first pruning that goes on to the sensor read with state_lock held.
CyclePruneHolding ==
    /\ loop.pc = "c_prune"
    /\ fan_history' = Prune(fan_history, loop.now - loop.local_history_duration)
    /\ loop' = [loop EXCEPT !.pc = "gt_read", !.gt_ret = "c_temp_acq"]
    /\ UNCHANGED <<cfgVars, fan_state, current_temp, last_error, ser, stop_thread,
                   lockVars, clock, relay, upd, idx, env, chart>>

\* Under state_lock: the first pruning; then the sensor read.
CyclePrune ==
    /\ loop.pc = "c_prune"
    /\ fan_history' = Prune(fan_history, loop.now - loop.local_history_duration)
    /\ state_lock' = "free"
    /\ loop' = [loop EXCEPT !.pc = "gt_read", !.gt_ret = "c_temp_acq"]
    /\ UNCHANGED <<cfgVars, fan_state, current_temp, last_error, ser, stop_thread,
                   settings_lock, clock, relay, upd, idx, env, chart>>

\* A cycle that stores the result of the read whatever it is.
CycleTempOverwrite ==
    /\ loop.pc = "c_temp"
    /\ current_temp' = loop.temp
    /\ fan_history' = Prune(fan_history, loop.now - loop.local_history_duration)
    /\ state_lock' = "free"
    /\ loop' = IF loop.temp = None THEN EndCycle(loop)
               ELSE [loop EXCEPT !.pc = "c_state_acq"]
    /\ UNCHANGED <<cfgVars, fan_state, last_error, ser, stop_thread,
                   settings_lock, clock, relay, upd, idx, env, chart>>

\* Under state_lock: current_temp keeps its value on a failed read, the
\* history is pruned again; a failed read ends the cycle.
CycleTemp ==
    /\ loop.pc = "c_temp"
    /\ current_temp' = IF loop.temp # None THEN loop.temp ELSE current_temp
    /\ fan_history' = Prune(fan_history, loop.now - loop.local_history_duration)
    /\ state_lock' = "free"
    /\ loop' = IF loop.temp = None THEN EndCycle(loop)
               ELSE [loop EXCEPT !.pc = "c_state_acq"]
    /\ UNCHANGED <<cfgVars, fan_state, last_error, ser, stop_thread,
                   settings_lock, clock, relay, upd, idx, env, chart>>

\* Under state_lock: fan_state is read; then the decision, and set_fan when
\* the state has to change.
CycleDecide ==
    /\ loop.pc = "c_state"
    /\ state_lock' = "free"
    /\ LET target == Decide(Get(loop.temp), loop.local_ceiling, loop.local_floor,
                            fan_state)
       IN  loop' = IF target # fan_state
                   THEN [loop EXCEPT !.pc = "sf_cmd_acq", !.current_fan_state = fan_state,
                                     !.new_state = target, !.state = target,
                                     !.sf_ret = "c_sent"]
                   ELSE [loop EXCEPT !.pc = "c_marker_acq", !.current_fan_state = fan_state,
                                     !.new_state = target]
    /\ UNCHANGED <<cfgVars, fanVars, ser, stop_thread, settings_lock, clock, relay,
                   upd, idx, env, chart>>

\* A cycle that commits the new state whatever set_fan returned.
CycleSentAlways ==
    /\ loop.pc = "c_sent"
    /\ loop' = [loop EXCEPT !.pc = "c_commit_acq"]
    /\ UNCHANGED <<cfgVars, fanVars, ser, stop_thread, lockVars, clock, relay, upd, idx, env, chart>>

\* if set_fan(new_state): ... else: nothing is committed.
CycleSent ==
    /\ loop.pc = "c_sent"
    /\ loop' = IF loop.sent THEN [loop EXCEPT !.pc = "c_commit_acq"] ELSE EndCycle(loop)
    /\ UNCHANGED <<cfgVars, fanVars, ser, stop_thread, lockVars, clock, relay, upd, idx, env, chart>>

\* A commit of the new state without its history entry.
CycleCommitNoEntry ==
    /\ loop.pc = "c_commit"
    /\ fan_state' = loop.new_state
    /\ state_lock' = "free"
    /\ loop' = EndCycle(loop)
    /\ UNCHANGED <<cfgVars, current_temp, last_error, fan_history, ser, stop_thread,
                   settings_lock, clock, relay, upd, idx, env, chart>>

\* A commit that puts its entry at the old end of the log (appendleft).
CycleCommitAtFront ==
    /\ loop.pc = "c_commit"
    /\ fan_state' = loop.new_state
    /\ fan_history' = <<<<loop.now, loop.new_state>>>> \o fan_history
    /\ state_lock' = "free"
    /\ loop' = EndCycle(loop)
    /\ UNCHANGED <<cfgVars, current_temp, last_error, ser, stop_thread,
                   settings_lock, clock, relay, upd, idx, env, chart>>

\* Under state_lock: the new state and its history entry.
CycleCommit ==
    /\ loop.pc = "c_commit"
    /\ fan_state' = loop.new_state
    /\ fan_history' = Append(fan_history, <<loop.now, loop.new_state>>)
    /\ state_lock' = "free"
    /\ loop' = EndCycle(loop)
    /\ UNCHANGED <<cfgVars, current_temp, last_error, ser, stop_thread,
                   settings_lock, clock, relay, upd, idx, env, chart>>

\* Under state_lock: an entry for the unchanged state when the last one is old.
CycleMarker ==
    /\ loop.pc = "c_marker"
    /\ fan_history' = IF MarkerDue(fan_history, loop.now, loop.local_check_interval)
                      THEN Append(fan_history, <<loop.now, fan_state>>)
                      ELSE fan_history
    /\ state_lock' = "free"
    /\ loop' = EndCycle(loop)
    /\ UNCHANGED <<cfgVars, fan_state, current_temp, last_error, ser, stop_thread,
                   settings_lock, clock, relay, upd, idx, env, chart>>

\* A wait that sleeps the whole interval whether the event is set or not.
WaitIgnoringStop ==
    /\ loop.pc = "wait"
    /\ clock + loop.local_check_interval <= Horizon
    /\ clock' = clock + loop.local_check_interval
    /\ loop' = [loop EXCEPT !.pc = "loop_test"]
    /\ UNCHANGED <<cfgVars, fanVars, ser, stop_thread, lockVars, relay, upd, idx, env, chart>>

\* stop_thread.wait(local_check_interval): returns at once when the event is
\* set, else after the interval (the time the cycle's own calls take, a few
\* seconds at most, is neglected against it).
Wait ==
    /\ loop.pc = "wait"
    /\ IF stop_thread
       THEN clock' = clock
       ELSE /\ clock + loop.local_check_interval <= Horizon
            /\ clock' = clock + loop.local_check_interval
    /\ loop' = [loop EXCEPT !.pc = "loop_test"]
    /\ UNCHANGED <<cfgVars, fanVars, ser, stop_thread, lockVars, relay, upd, idx, env, chart>>

\* After the loop: an open port is closed.
Cleanup ==
    /\ loop.pc = "cleanup"
    /\ ser' = IF ser = "open" THEN "closed" ELSE ser
    /\ loop' = [loop EXCEPT !.pc = "done"]
    /\ UNCHANGED <<cfgVars, fanVars, stop_thread, lockVars, clock, relay, upd, idx, env, chart>>

\* stop_background_thread: the stop event is set.
StopRequest ==
    /\ ~stop_thread
    /\ loop.pc # "done"
    /\ stop_thread' = TRUE
    /\ UNCHANGED <<cfgVars, fanVars, ser, lockVars, clock, relay, loop, upd, idx, env, chart>>

(***************************************************************************)
(* update_settings.                                                        *)
(***************************************************************************)
\* A POST of one of the given forms arrives.
Submit(forms) ==
    /\ upd.pc = "idle"
    /\ upd.served < MaxUpdates
    /\ \E form \in forms : upd' = [upd EXCEPT !.pc = "validate", !.form = Some(form)]
    /\ UNCHANGED <<cfgVars, fanVars, ser, stop_thread, lockVars, clock, relay, loop, idx, env, chart>>

UpdateSubmit == Submit(Forms)
\* A POST of any form of the validation runs.
ValidateSubmit == Submit(AllForms)

\* A validation that goes on to apply what it collected, errors or not.
UpdateValidateLenient ==
    /\ upd.pc = "validate"
    /\ LET v == ValidateForm(Get(upd.form))
       IN  upd' = [upd EXCEPT
               !.pc = "u_acq",
               !.form_errors = v.errors,
               !.updated_settings = v.updated,
               !.flash = IF v.errors # <<>> THEN Some("danger") ELSE None]
    /\ UNCHANGED <<cfgVars, fanVars, ser, stop_thread, lockVars, clock, relay, loop, idx, env, chart>>

\* The form is validated; errors are flashed and nothing else is done.
UpdateValidate ==
    /\ upd.pc = "validate"
    /\ LET v == ValidateForm(Get(upd.form))
       IN  upd' = [upd EXCEPT
               !.pc = IF v.errors # <<>> THEN "respond" ELSE "u_acq",
               !.form_errors = v.errors,
               !.updated_settings = v.updated,
               !.flash = IF v.errors # <<>> THEN Some("danger") ELSE None]
    /\ UNCHANGED <<cfgVars, fanVars, ser, stop_thread, lockVars, clock, relay, loop, idx, env, chart>>

UpdateAcquire ==
    /\ upd.pc = "u_acq"
    /\ Free(settings_lock)
    /\ settings_lock' = "upd"
    /\ upd' = [upd EXCEPT !.pc = "u_save"]
    /\ UNCHANGED <<cfgVars, fanVars, ser, stop_thread, state_lock, clock, relay, loop, idx, env, chart>>

\* Under settings_lock: the merged settings are written to the file; when the
\* write fails (the file is left as it was) nothing is applied.
UpdateSave ==
    /\ upd.pc = "u_save"
    /\ LET to_save == SettingsToSave(current_settings, upd.updated_settings)
       IN  \/ /\ settings_file' = Some(to_save)
              /\ upd' = [upd EXCEPT !.pc = "u_apply", !.settings_to_save = Some(to_save)]
              /\ UNCHANGED settings_lock
           \/ /\ settings_file' = settings_file
              /\ upd' = [upd EXCEPT !.pc = "respond", !.settings_to_save = Some(to_save),
                                    !.flash = Some("warning")]
              /\ settings_lock' = "free"
    /\ UNCHANGED <<current_settings, command_open_bytes, command_close_bytes,
                   history_duration, check_interval, fanVars, ser, stop_thread,
                   state_lock, clock, relay, loop, idx, env, chart>>

\* Under settings_lock: current_settings = settings_to_save.copy()
UpdateApply ==
    /\ upd.pc = "u_apply"
    /\ current_settings' = Get(upd.settings_to_save)
    /\ upd' = [upd EXCEPT !.pc = "u_derive"]
    /\ UNCHANGED <<command_open_bytes, command_close_bytes, history_duration,
                   check_interval, settings_file, fanVars, ser, stop_thread, lockVars,
                   clock, relay, loop, idx, env, chart>>

\* An update that also starts a new log.
UpdateDeriveNewLog ==
    /\ upd.pc = "u_derive"
    /\ LET d == DeriveByteCommands(current_settings.command_open_hex,
                                   current_settings.command_close_hex)
       IN  /\ command_open_bytes' = d.open
           /\ command_close_bytes' = d.close
    /\ history_duration' = Hours(current_settings.history_duration_hours)
    /\ check_interval' = current_settings.check_interval_seconds
    /\ settings_lock' = "free"
    /\ fan_history' = <<>>
    /\ upd' = [upd EXCEPT !.pc = "respond", !.flash = Some("success")]
    /\ UNCHANGED <<current_settings, settings_file, fan_state, current_temp, last_error,
                   ser, stop_thread, state_lock, clock, relay, loop, idx, env, chart>>

\* Under settings_lock: the derived globals follow current_settings.
UpdateDerive ==
    /\ upd.pc = "u_derive"
    /\ LET d == DeriveByteCommands(current_settings.command_open_hex,
                                   current_settings.command_close_hex)
       IN  /\ command_open_bytes' = d.open
           /\ command_close_bytes' = d.close
    /\ history_duration' = Hours(current_settings.history_duration_hours)
    /\ check_interval' = current_settings.check_interval_seconds
    /\ settings_lock' = "free"
    /\ upd' = [upd EXCEPT !.pc = "respond", !.flash = Some("success")]
    /\ UNCHANGED <<current_settings, settings_file, fanVars, ser, stop_thread,
                   state_lock, clock, relay, loop, idx, env, chart>>

\* The redirect to the page ends the request.
UpdateRespond ==
    /\ upd.pc = "respond"
    /\ upd' = [UpdIdle EXCEPT !.served = upd.served + 1]
    /\ UNCHANGED <<cfgVars, fanVars, ser, stop_thread, lockVars, clock, relay, loop, idx, env, chart>>

(***************************************************************************)
(* index: the status page.                                                 *)
(***************************************************************************)
IndexAcquireState ==
    /\ idx.pc = "idle"
    /\ Free(state_lock)
    /\ state_lock' = "idx"
    /\ idx' = [idx EXCEPT !.pc = "i_status"]
    /\ UNCHANGED <<cfgVars, fanVars, ser, stop_thread, settings_lock, clock, relay,
                   loop, upd, env, chart>>

\* A page that reads the settings inside its "with state_lock:" block.
IndexStatusHolding ==
    /\ idx.pc = "i_status"
    /\ idx' = [idx EXCEPT !.pc = "i_cfg_acq",
                          !.status = Some([current_temp |-> current_temp,
                                           fan_state |-> fan_state,
                                           last_error |-> last_error])]
    /\ UNCHANGED <<cfgVars, fanVars, ser, stop_thread, lockVars, clock, relay,
                   loop, upd, env, chart>>

\* Under state_lock: temperature, fan state and last error.
IndexStatus ==
    /\ idx.pc = "i_status"
    /\ state_lock' = "free"
    /\ idx' = [idx EXCEPT !.pc = "i_cfg_acq",
                          !.status = Some([current_temp |-> current_temp,
                                           fan_state |-> fan_state,
                                           last_error |-> last_error])]
    /\ UNCHANGED <<cfgVars, fanVars, ser, stop_thread, settings_lock, clock, relay,
                   loop, upd, env, chart>>

IndexAcquireSettings ==
    /\ idx.pc = "i_cfg_acq"
    /\ Free(settings_lock)
    /\ settings_lock' = "idx"
    /\ idx' = [idx EXCEPT !.pc = "i_cfg_ceiling"]
    /\ UNCHANGED <<cfgVars, fanVars, ser, stop_thread, state_lock, clock, relay,
                   loop, upd, env, chart>>

\* Under settings_lock: the first value read.
IndexCeiling ==
    /\ idx.pc = "i_cfg_ceiling"
    /\ idx' = [idx EXCEPT !.pc = "i_cfg_rest",
                          !.settings = Some([threshold_ceiling |->
                                                current_settings.threshold_ceiling])]
    /\ UNCHANGED <<cfgVars, fanVars, ser, stop_thread, lockVars, clock, relay, loop, upd, env, chart>>

\* Under settings_lock: the other values read.
IndexSettings ==
    /\ idx.pc = "i_cfg_rest"
    /\ settings_lock' = "free"
    /\ idx' = [idx EXCEPT !.pc = "render",
                          !.settings = Some([current_settings EXCEPT
                              !.threshold_ceiling = Get(idx.settings).threshold_ceiling])]
    /\ UNCHANGED <<cfgVars, fanVars, ser, stop_thread, state_lock, clock, relay,
                   loop, upd, env, chart>>

\* render_template ends the request.
IndexRender ==
    /\ idx.pc = "render"
    /\ idx' = IdxIdle
    /\ UNCHANGED <<cfgVars, fanVars, ser, stop_thread, lockVars, clock, relay, loop, upd, env, chart>>

(***************************************************************************)
(* chart_data: the history summary.                                        *)
(***************************************************************************)
\* _get_state_at_time without its loop: the log is not consulted.
GetStateAtTimeDefault(timestamp, history_list, default_state) == default_state

\* _get_state_at_time: the state of the latest event at or before timestamp,
\* default_state when there is none.
GetStateAtTime(timestamp, history_list, default_state) ==
    LET before == {i \in DOMAIN history_list : history_list[i][1] <= timestamp}
    IN  IF before = {} THEN default_state
        ELSE history_list[CHOOSE i \in before : \A j \in before : j <= i][2]

\* The filter of the snapshot: the events of the window and of one check
\* interval before it.
WindowAndBuffer(history_copy_raw, max_cutoff_time, interval) ==
    SelectSeq(history_copy_raw, LAMBDA item : item[1] >= max_cutoff_time - interval)

\* A window that is never extended back before now.
ChartWindowStartTimeNow(history_copy, max_cutoff_time, now) == now

\* The start of the charted window: the cutoff, or the first event kept when
\* it is later, and never later than now.
ChartWindowStartTime(history_copy, max_cutoff_time, now) ==
    LET from_history == IF history_copy = <<>> THEN max_cutoff_time
                        ELSE IF history_copy[1][1] > max_cutoff_time
                             THEN history_copy[1][1] ELSE max_cutoff_time
    IN  IF from_history > now THEN now ELSE from_history

\* total_on_time += duration or total_off_time += duration, for a positive
\* duration.
Credit(totals, duration, state) ==
    IF duration <= 0 THEN totals
    ELSE IF state THEN [totals EXCEPT !.total_on_time = @ + duration]
         ELSE [totals EXCEPT !.total_off_time = @ + duration]

\* The loop over history_copy: each event later than the start of the window
\* closes the interval before it and opens the next one.
RECURSIVE WalkHistory(_, _, _)
WalkHistory(history_copy, chart_window_start_time, pie) ==
    IF history_copy = <<>> THEN pie
    ELSE LET ts == Head(history_copy)[1]
             state == Head(history_copy)[2]
             credited == Credit(pie, ts - pie.current_interval_start_for_pie,
                                pie.current_state_in_interval_for_pie)
             next == IF ts > chart_window_start_time
                     THEN [credited EXCEPT !.current_interval_start_for_pie = ts,
                                           !.current_state_in_interval_for_pie = state]
                     ELSE pie
         IN  WalkHistory(Tail(history_copy), chart_window_start_time, next)

\* round(num / den * 1000) for den > 0: a percentage rounded to one decimal,
\* in tenths of a percent; a tie goes to the even tenth (\div rounds down and
\* % is never negative, for a negative num as well).
RoundTenths(num, den) ==
    LET q == (num * 1000) \div den
        r == (num * 1000) % den
    IN  IF 2 * r > den \/ (2 * r = den /\ q % 2 = 1) THEN q + 1 ELSE q

\* The body of chart_data after the snapshot. Percentages are in tenths of a
\* percent, durations in seconds.
ChartData(now, local_history_duration, history_copy_raw, history_copy, current_fan_state_for_calc) ==
    LET max_cutoff_time == now - local_history_duration
        chart_window_start_time ==
            ChartWindowStartTime(history_copy, max_cutoff_time, now)
        total_charted_seconds == now - chart_window_start_time
        state_at_chart_window_start ==
            GetStateAtTime(chart_window_start_time, history_copy_raw,
                           current_fan_state_for_calc)
        walked == WalkHistory(history_copy, chart_window_start_time,
                      [total_on_time |-> 0, total_off_time |-> 0,
                       current_interval_start_for_pie |-> chart_window_start_time,
                       current_state_in_interval_for_pie |-> state_at_chart_window_start])
        totals == Credit(walked, now - walked.current_interval_start_for_pie,
                         current_fan_state_for_calc)
    IN  IF total_charted_seconds <= 0
        THEN [on_percentage |-> IF current_fan_state_for_calc THEN 1000 ELSE 0,
              off_percentage |-> IF ~current_fan_state_for_calc THEN 1000 ELSE 0,
              total_on_seconds |-> 0,
              total_off_seconds |-> 0,
              total_charted_seconds |-> 0,
              chart_window_start_time |-> chart_window_start_time]
        ELSE [on_percentage |-> RoundTenths(totals.total_on_time, total_charted_seconds),
              off_percentage |-> RoundTenths(total_charted_seconds - totals.total_on_time,
                                             total_charted_seconds),
              total_on_seconds |-> totals.total_on_time,
              total_off_seconds |-> totals.total_off_time,
              total_charted_seconds |-> total_charted_seconds,
              chart_window_start_time |-> chart_window_start_time]

\* now = datetime.now()
ChartNow ==
    /\ chart.pc = "idle"
    /\ chart' = [chart EXCEPT !.pc = "h_cfg_acq", !.now = clock]
    /\ UNCHANGED <<cfgVars, fanVars, ser, stop_thread, lockVars, clock, relay, loop, upd,
                   idx, env>>

ChartAcquireSettings ==
    /\ chart.pc = "h_cfg_acq"
    /\ Free(settings_lock)
    /\ settings_lock' = "chart"
    /\ chart' = [chart EXCEPT !.pc = "h_cfg"]
    /\ UNCHANGED <<cfgVars, fanVars, ser, stop_thread, state_lock, clock, relay,
                   loop, upd, idx, env>>

\* Under settings_lock: the retention.
ChartDuration ==
    /\ chart.pc = "h_cfg"
    /\ settings_lock' = "free"
    /\ chart' = [chart EXCEPT !.pc = "h_snap_acq",
                              !.local_history_duration =
                                  Hours(current_settings.history_duration_hours)]
    /\ UNCHANGED <<cfgVars, fanVars, ser, stop_thread, state_lock, clock, relay,
                   loop, upd, idx, env>>

ChartAcquireState ==
    /\ chart.pc = "h_snap_acq"
    /\ Free(state_lock)
    /\ state_lock' = "chart"
    /\ chart' = [chart EXCEPT !.pc = "h_snap"]
    /\ UNCHANGED <<cfgVars, fanVars, ser, stop_thread, settings_lock, clock, relay,
                   loop, upd, idx, env>>

\* Under state_lock: the log, its filtered copy and the fan state. The check
\* interval is read from current_settings here, outside settings_lock.
ChartSnapshot ==
    /\ chart.pc = "h_snap"
    /\ state_lock' = "free"
    /\ chart' = [chart EXCEPT
           !.pc = "h_compute",
           !.history_copy_raw = fan_history,
           !.history_copy = WindowAndBuffer(fan_history,
                                chart.now - chart.local_history_duration,
                                current_settings.check_interval_seconds),
           !.current_fan_state_for_calc = fan_state]
    /\ UNCHANGED <<cfgVars, fanVars, ser, stop_thread, settings_lock, clock, relay,
                   loop, upd, idx, env>>

\* The calculation, then jsonify.
ChartCompute ==
    /\ chart.pc = "h_compute"
    /\ chart' = [chart EXCEPT
           !.pc = "h_respond",
           !.response = Some(ChartData(chart.now, chart.local_history_duration,
                                       chart.history_copy_raw, chart.history_copy,
                                       chart.current_fan_state_for_calc))]
    /\ UNCHANGED <<cfgVars, fanVars, ser, stop_thread, lockVars, clock, relay, loop, upd,
                   idx, env>>

\* The response is sent and the request ends.
ChartRespond ==
    /\ chart.pc = "h_respond"
    /\ chart' = ChartIdle
    /\ UNCHANGED <<cfgVars, fanVars, ser, stop_thread, lockVars, clock, relay, loop, upd,
                   idx, env>>

(***************************************************************************)
(* Specification.                                                          *)
(***************************************************************************)
\* init_serial, get_ssd_temp and set_fan, and the lock acquisitions.
ProcStep ==
    \/ LoopAcquireState \/ LoopAcquireSettings
    \/ InitSerialOpen \/ InitSerialRecord
    \/ GetSsdTempRead \/ GetSsdTempRecord
    \/ SetFanCommands \/ SetFanLink \/ SetFanReopened \/ SetFanWrite \/ SetFanRecord

StartupStep == Start \/ StartSettings \/ StartGotTemp \/ StartTemp \/ StartSeed

CycleStep ==
    \/ LoopTest \/ CycleCeiling \/ CycleSettings \/ CyclePrune \/ CycleTemp
    \/ CycleDecide \/ CycleSent \/ CycleCommit \/ CycleMarker \/ Wait \/ Cleanup

LoopStep == StartupStep \/ CycleStep \/ ProcStep

UpdateStep ==
    \/ UpdateSubmit \/ UpdateValidate \/ UpdateAcquire \/ UpdateSave \/ UpdateApply
    \/ UpdateDerive \/ UpdateRespond

IndexStep ==
    \/ IndexAcquireState \/ IndexStatus \/ IndexAcquireSettings \/ IndexCeiling
    \/ IndexSettings \/ IndexRender

Next == LoopStep \/ UpdateStep \/ StopRequest

Spec == Init /\ [][Next]_vars

\* The controller thread alone, in an environment that may settle: from then
\* on the sensor reads hot (or cold) and the port opens and takes writes.
Settle ==
    /\ env = "any"
    /\ env' \in {"hot", "cold"}
    /\ UNCHANGED <<cfgVars, fanVars, ser, stop_thread, lockVars, clock, relay, loop, upd, idx,
                   chart>>

\* The controller thread with requests to update_settings and to the page,
\* where the sensor reads 47.0 and neither the sensor nor the link fails: the
\* steps that handle a failed read and a failed reopen are never enabled.
WebProcStep ==
    \/ LoopAcquireState \/ LoopAcquireSettings
    \/ InitSerialOpen \/ InitSerialRecord
    \/ GetSsdTempRead
    \/ SetFanCommands \/ SetFanLink \/ SetFanWrite \/ SetFanRecord
WebNext == StartupStep \/ CycleStep \/ WebProcStep \/ UpdateStep \/ IndexStep
           \/ StopRequest
WebSpec == InitEnv("warm") /\ [][WebNext]_vars

\* Requests to update_settings alone, over all the forms.
ValidateStep == ValidateSubmit \/ UpdateValidate \/ UpdateAcquire \/ UpdateSave
                \/ UpdateApply \/ UpdateDerive \/ UpdateRespond
ValidateSpec == Init /\ [][ValidateStep]_vars

LiveNext == LoopStep \/ StopRequest \/ Settle
\* The thread keeps running: a step it can take is taken.
LiveSpec == Init /\ [][LiveNext]_vars /\ WF_vars(LoopStep)

\* The controller thread alone, started from a settings file that keeps one
\* hour of history or from one that keeps two.
RetentionFiles ==
    StartupFiles \cup {Some([DEFAULT_SETTINGS EXCEPT !.check_interval_seconds = 3000,
                                                      !.history_duration_hours = 2])}
MarkerNext == LoopStep \/ StopRequest
MarkerSpec == InitWith(RetentionFiles, "any") /\ [][MarkerNext]_vars

\* Requests to chart_data alone, over the logs, fan states, times and
\* settings a request can find; the controller thread does not run.
SummaryInit ==
    /\ settings_file = Some(DEFAULT_SETTINGS)
    /\ \E hours \in RetentionHours, seconds \in CheckIntervals :
           current_settings = [DEFAULT_SETTINGS EXCEPT
                                   !.history_duration_hours = hours,
                                   !.check_interval_seconds = seconds]
    /\ LET d == DeriveByteCommands(current_settings.command_open_hex,
                                   current_settings.command_close_hex)
       IN  /\ command_open_bytes = d.open
           /\ command_close_bytes = d.close
    /\ history_duration = Hours(current_settings.history_duration_hours)
    /\ check_interval = current_settings.check_interval_seconds
    /\ fan_state \in BOOLEAN
    /\ current_temp = None
    /\ last_error = None
    /\ ser = "none"
    /\ clock \in RequestTimes
    /\ fan_history \in {h \in EventLogs : \A i \in DOMAIN h : h[i][1] <= clock}
    /\ stop_thread = FALSE
    /\ state_lock = "free"
    /\ settings_lock = "free"
    /\ relay = None
    /\ env = "any"
    /\ loop = LoopInit
    /\ upd = UpdIdle
    /\ idx = IdxIdle
    /\ chart = ChartIdle

ChartStep ==
    \/ ChartNow \/ ChartAcquireSettings \/ ChartDuration \/ ChartAcquireState
    \/ ChartSnapshot \/ ChartCompute \/ ChartRespond

SummarySpec == SummaryInit /\ [][ChartStep]_vars

\* The controller thread with requests to update_settings, to the page and
\* to chart_data, where the sensor reads 47.0 and nothing fails.
FacadeNext == StartupStep \/ CycleStep \/ WebProcStep \/ UpdateStep \/ IndexStep
              \/ ChartStep \/ StopRequest
FacadeSpec == InitEnv("warm") /\ [][FacadeNext]_vars

\* The controller thread with requests to chart_data, started from either
\* settings file.
ChartLoopNext == LoopStep \/ ChartStep \/ StopRequest
ChartLoopSpec == InitWith(RetentionFiles, "any") /\ [][ChartLoopNext]_vars

(***************************************************************************)
(* Properties of the controller loop.                                      *)
(***************************************************************************)
\* From the decision of a cycle to the end of the cycle.
Decided == loop.sf_ret = "c_sent" \/ loop.pc \in {"c_marker_acq", "c_marker"}
\* The pcs of set_fan and of the init_serial it calls.
SetFanPcs == {"sf_cmd_acq", "sf_cmd", "sf_link", "sf_reopened", "sf_write",
              "sf_rec_acq", "sf_rec", "is_open", "is_rec_acq", "is_rec"}
\* In a cycle of the loop (not in the startup code, not past the loop).
InCycle ==
    /\ loop.pc \notin {"start", "s_cfg_acq", "s_cfg", "s_got_temp", "s_temp_acq",
                       "s_temp", "s_seed_acq", "s_seed", "cleanup", "done"}
    /\ loop.pc \in SetFanPcs => loop.sf_ret = "c_sent"
    /\ loop.pc \in {"gt_read", "gt_rec_acq", "gt_rec"} => loop.gt_ret = "c_temp_acq"
\* history is what is left of old after dropping entries from its old end.
IsSuffix(history, old) ==
    /\ Len(history) <= Len(old)
    /\ history = SubSeq(old, Len(old) - Len(history) + 1, Len(old))

\* A step taken by the controller thread.
LoopMoves == loop' # loop

\* C1: in a cycle whose read succeeded, the target is ON when the
\* temperature is at or above the ceiling and the fan is OFF, else OFF when
\* the temperature is below the floor and the fan is ON, else the current
\* state; the state compared is the fan state of that moment.
C1_Hysteresis ==
    Decided =>
        /\ loop.temp # None
        /\ loop.current_fan_state = fan_state
        /\ LET t == Get(loop.temp).milli
               ceiling == loop.local_ceiling.milli
               floor == loop.local_floor.milli
           IN  loop.new_state =
                   CASE t >= ceiling /\ ~fan_state -> TRUE
                     [] t < floor /\ fan_state -> FALSE
                     [] OTHER -> fan_state
\* A temperature equal to the ceiling turns an OFF fan ON.
C1_Witness ==
    /\ Decided
    /\ Get(loop.temp) = loop.local_ceiling
    /\ ~fan_state
    /\ loop.new_state
\* A temperature equal to the floor leaves an ON fan ON.
C1_WitnessFloor ==
    /\ Decided
    /\ Get(loop.temp) = loop.local_floor
    /\ fan_state
    /\ loop.new_state

\* The temperature read in the cycle is strictly inside the band read in it.
DeadBand ==
    /\ loop.temp # None
    /\ FloatLT(loop.local_floor, Get(loop.temp))
    /\ FloatLT(Get(loop.temp), loop.local_ceiling)
\* The cycle has not read the sensor yet.
BeforeRead == loop.pc \in {"wait", "loop_test", "c_cfg_acq", "c_cfg_ceiling", "c_cfg_rest",
                           "c_prune_acq", "c_prune", "gt_read", "gt_rec_acq", "gt_rec"}
\* C2: while the temperature of a cycle is strictly between the floor and
\* the ceiling read in that cycle (and between cycles), no step changes
\* fan_state, none writes to the relay and set_fan is not entered.
C2_DeadBand ==
    [][(InCycle /\ (BeforeRead \/ DeadBand))
          => /\ fan_state' = fan_state
             /\ relay' = relay
             /\ loop'.pc \notin SetFanPcs]_vars
\* A dead-band cycle that leaves an ON fan ON.
C2_Witness ==
    /\ loop.pc = "c_marker"
    /\ DeadBand
    /\ fan_state
C2_WitnessOff ==
    /\ loop.pc = "c_marker"
    /\ DeadBand
    /\ ~fan_state

\* C3: from the decision to change the state to the end of the cycle, only
\* the commit changes fan_state or the history, and the commit is reached
\* only after set_fan returned True.
C3_FailedCommand ==
    [][/\ loop.pc \in {"c_commit_acq", "c_commit"} => loop.sent
       /\ (loop.sf_ret = "c_sent" /\ loop.pc # "c_commit")
             => (fan_state' = fan_state /\ fan_history' = fan_history)
       /\ (loop.pc = "c_sent" /\ ~loop.sent /\ LoopMoves) => loop'.pc = "wait"]_vars
\* set_fan(True) has failed in a cycle.
C3_Witness ==
    /\ loop.pc = "c_sent"
    /\ ~loop.sent
    /\ loop.new_state
    /\ ~fan_state

\* The temperature of the cycle demands a transition.
Demands ==
    \/ FloatGE(Get(loop.temp), loop.local_ceiling) /\ ~fan_state
    \/ FloatLT(Get(loop.temp), loop.local_floor) /\ fan_state
\* The run has room for one more cycle.
CycleAhead == clock + check_interval <= Horizon
\* C4: the loop is left only on a stop request; a cycle whose temperature
\* demands a transition calls set_fan; and once the sensor stays hot (cold)
\* and the link works, with a cycle still to come, the fan is eventually ON
\* (OFF) unless the thread is stopped.
C4_Retried ==
    /\ [][/\ (loop.pc # "cleanup" /\ loop'.pc = "cleanup") => stop_thread
          /\ (loop.pc = "c_state" /\ LoopMoves /\ Demands) => loop'.pc = "sf_cmd_acq"]_vars
    /\ (env = "hot" /\ CycleAhead) ~> (fan_state \/ stop_thread)
    /\ (env = "cold" /\ CycleAhead) ~> (~fan_state \/ stop_thread)
\* The second cycle sends ON again after the first cycle's command failed:
\* the startup command reached the relay, nothing was committed since, and
\* the last send is recorded as failed.
C4_Witness ==
    /\ loop.pc = "sf_write"
    /\ loop.sf_ret = "c_sent"
    /\ loop.state
    /\ loop.now = 3000
    /\ env = "hot"
    /\ relay = Some(command_close_bytes)
    /\ fan_history = <<<<0, FALSE>>>>
    /\ last_error # None /\ HasSending(Get(last_error))

\* The read of the cycle has failed and the cycle is not over.
FailedRead == InCycle /\ loop.temp = None /\ loop.pc \in {"gt_rec_acq", "gt_rec",
                                                         "c_temp_acq", "c_temp"}
\* C5: in a cycle whose read failed, current_temp, fan_state and the relay
\* stay as they were, nothing is appended to the history, the history is
\* pruned to the retention, and the loop sleeps one interval and goes on.
C5_FailedRead ==
    [][/\ FailedRead =>
             /\ current_temp' = current_temp
             /\ fan_state' = fan_state
             /\ relay' = relay
             /\ IsSuffix(fan_history', fan_history)
             /\ loop'.pc \in {"gt_rec_acq", "gt_rec", "c_temp_acq", "c_temp", "wait"}
       /\ (FailedRead /\ loop.pc = "c_temp" /\ LoopMoves) =>
             /\ loop'.pc = "wait"
             /\ \A i \in 1..Len(fan_history') :
                   fan_history'[i][1] >= loop.now - loop.local_history_duration
       /\ (loop.pc = "wait" /\ ~stop_thread /\ LoopMoves) =>
             /\ loop'.pc \in {"wait", "loop_test"}
             /\ loop'.pc = "loop_test" => clock' = clock + loop.local_check_interval]_vars
\* A read fails while an earlier temperature is known.
C5_Witness ==
    /\ FailedRead
    /\ loop.pc = "c_temp"
    /\ current_temp # None

\* C6: once the history holds an event it is never empty again.
C6_NeverEmptied == [][fan_history # <<>> => fan_history' # <<>>]_vars

\* C7: a pruning step of a cycle only drops entries from the old end of the
\* history and leaves no entry older than the cycle's now minus the
\* retention read in that cycle.
C7_Pruned ==
    [][(loop.pc \in {"c_prune", "c_temp"} /\ LoopMoves) =>
          /\ IsSuffix(fan_history', fan_history)
          /\ \A i \in 1..Len(fan_history') :
                fan_history'[i][1] >= loop.now - loop.local_history_duration]_vars
\* A pruning has dropped the first entry (of instant 0) and kept a later one.
C7_Witness ==
    /\ loop.pc = "gt_read"
    /\ loop.gt_ret = "c_temp_acq"
    /\ loop.now - loop.local_history_duration > 0
    /\ fan_history # <<>>

\* C25: in a cycle whose read succeeded and whose target is the fan state, an
\* entry (now, fan state) is appended exactly when the log is empty or its
\* last entry is older than 1.5 times the check interval of the cycle; a
\* cycle appends at most one entry, at its end: the new state or the marker.
C25_Marker ==
    [][/\ (loop.pc = "c_marker" /\ LoopMoves) =>
              /\ loop.temp # None
              /\ loop.new_state = fan_state
              /\ fan_history' =
                    IF \/ fan_history = <<>>
                       \/ 2 * (loop.now - fan_history[Len(fan_history)][1])
                              > 3 * loop.local_check_interval
                    THEN fan_history \o <<<<loop.now, fan_state>>>>
                    ELSE fan_history
       /\ (InCycle /\ LoopMoves /\ ~IsSuffix(fan_history', fan_history)) =>
              /\ loop.pc \in {"c_commit", "c_marker"}
              /\ loop'.pc = "wait"
              /\ Len(fan_history') = Len(fan_history) + 1
              /\ SubSeq(fan_history', 1, Len(fan_history)) = fan_history]_vars
\* No marker in the cycle at 3000 s, a marker in the cycle at 6000 s.
C25_Witness ==
    /\ loop.pc = "wait"
    /\ loop.local_check_interval = 3000
    /\ fan_history = <<<<0, FALSE>>, <<6000, FALSE>>>>
\* The log was emptied by the pruning and the cycle has logged the fan state.
C25_WitnessEmpty ==
    /\ loop.pc = "wait"
    /\ loop.local_history_duration = 3600
    /\ fan_history = <<<<6000, FALSE>>>>

\* The timestamps of history never decrease from the oldest entry on.
Ordered(history) ==
    \A i \in 1..(Len(history) - 1) : history[i][1] <= history[i + 1][1]
\* The last entry of the log is the startup entry and the clock has not
\* advanced since: the instants of the startup and of the first cycle, which
\* the calls of set_fan separate, carry the same reading of the clock.
StartupInstant == Len(fan_history) = 1 /\ fan_history[1][1] = clock

C27_ReopenAfterFailure ==
    [][/\ (loop.pc = "sf_rec" /\ ~loop.sent /\ LoopMoves) => ser' # "open"
       /\ (loop.pc = "sf_link" /\ ser # "open" /\ LoopMoves) => loop'.pc = "is_open"
       /\ (loop.pc = "sf_reopened" /\ ~loop.opened /\ LoopMoves) =>
              /\ loop'.pc = loop.sf_ret
              /\ ~loop'.sent
              /\ relay' = relay]_vars

(***************************************************************************)
(* Properties of update_settings.                                          *)
(***************************************************************************)
Reported(e) == \E i \in DOMAIN upd.form_errors : upd.form_errors[i] = e
UpdMoves == upd' # upd

\* C8: a request that has collected validation errors is answered without
\* entering the code that saves and applies, and from its arrival to its
\* answer neither the settings, nor the derived command bytes and globals,
\* nor the settings file change.
C8_RejectedChangesNothing ==
    [][/\ upd.form_errors # <<>> => upd.pc = "respond"
       /\ (upd.pc \in {"idle", "validate"} /\ UpdMoves) => UNCHANGED cfgVars
       /\ (upd.pc = "respond" /\ upd.form_errors # <<>>) => UNCHANGED cfgVars]_vars
\* A refused form (floor above ceiling) whose interval was valid and new.
C8_Witness ==
    /\ upd.pc = "respond"
    /\ Reported("floor_not_below_ceiling")
    /\ "check_interval_seconds" \in DOMAIN upd.updated_settings
    /\ upd.updated_settings["check_interval_seconds"] # current_settings.check_interval_seconds
    /\ settings_file = Some(current_settings)

\* C10: the errors of an answered request hold one error for each rule the
\* form violates, a threshold that is not a number included.
C10_AllReported ==
    upd.pc = "respond" =>
        LET form == Get(upd.form)
            c == ParseFloat(form.threshold_ceiling)
            f == ParseFloat(form.threshold_floor)
            interval == ParseInt(form.check_interval_seconds)
            hours == ParseInt(form.history_duration_hours)
        IN  /\ (c = None \/ f = None) => Reported("bad_number_format")
            /\ (c # None /\ f # None /\ FloatGE(Get(f), Get(c)))
                  => Reported("floor_not_below_ceiling")
            /\ FromHex(Strip(form.command_open_hex)) = None => Reported("invalid_on_hex")
            /\ FromHex(Strip(form.command_close_hex)) = None => Reported("invalid_off_hex")
            /\ Strip(form.temp_path) = <<>> => Reported("empty_temp_path")
            /\ interval = None => Reported("interval_bad_number")
            /\ (interval # None /\ Get(interval) <= 0) => Reported("interval_not_positive")
            /\ hours = None => Reported("history_bad_number")
            /\ (hours # None /\ Get(hours) <= 0) => Reported("history_not_positive")

\* Both thresholds of the form are numbers, so the commands are looked at.
ThresholdsParse ==
    /\ ParseFloat(Get(upd.form).threshold_ceiling) # None
    /\ ParseFloat(Get(upd.form).threshold_floor) # None

\* C11: in the answer to a form whose thresholds are numbers, an invalid ON
\* command is reported exactly when the ON command is not hex, and an
\* invalid OFF command exactly when the OFF command is not hex.
C11_CommandsIndependent ==
    (upd.pc = "respond" /\ ThresholdsParse) =>
        /\ Reported("invalid_on_hex")
              <=> FromHex(Strip(Get(upd.form).command_open_hex)) = None
        /\ Reported("invalid_off_hex")
              <=> FromHex(Strip(Get(upd.form).command_close_hex)) = None

\* C12: when a request whose form passed validation is answered, the
\* settings in memory are the merged settings of that request, whether the
\* write to the settings file succeeded or not.
C12_AcceptedReplaces ==
    (upd.pc = "respond" /\ upd.form_errors = <<>>) =>
        current_settings = Get(upd.settings_to_save)

(***************************************************************************)
(* Properties of the reads of the settings.                                *)
(***************************************************************************)
\* The pcs at which the controller thread, and the page, are inside a
\* "with settings_lock:" block that reads.
LoopReading == loop.pc \in {"s_cfg", "c_cfg_ceiling", "c_cfg_rest", "sf_cmd"}
IndexReading == idx.pc \in {"i_cfg_ceiling", "i_cfg_rest"}
\* The command bytes of a version of the settings.
BytesOf(settings) ==
    DeriveByteCommands(settings.command_open_hex, settings.command_close_hex)

C9_WitnessPage ==
    /\ idx.pc = "i_cfg_rest"
    /\ upd.pc = "u_acq"
    /\ Get(upd.form).threshold_ceiling = "47"

\* The versions of the settings in a run: the startup settings, and what an
\* accepted form makes of them (an accepted form sets every field).
SettingsVersions ==
    {LoadSettings(file) : file \in StartupFiles}
    \cup {SettingsToSave(LoadSettings(file), ValidateForm(form).updated) :
             file \in StartupFiles,
             form \in {f \in Forms : ValidateForm(f).errors = <<>>}}
\* The payload set_fan is about to write.
Payload == IF loop.state THEN loop.cmd_open ELSE loop.cmd_close

\* C13: when a cycle is about to write its command, the thresholds, sensor
\* path, interval and retention the cycle has read and the payload it is
\* about to write are those of one version of the settings.
C13_OneVersionPerCycle ==
    (loop.pc = "sf_write" /\ loop.sf_ret = "c_sent") =>
        \E v \in SettingsVersions :
            /\ loop.local_ceiling = v.threshold_ceiling
            /\ loop.local_floor = v.threshold_floor
            /\ loop.local_temp_path = v.temp_path
            /\ loop.local_check_interval = v.check_interval_seconds
            /\ loop.local_history_duration = Hours(v.history_duration_hours)
            /\ Payload = IF loop.state THEN BytesOf(v).open ELSE BytesOf(v).close

(***************************************************************************)
(* Properties of last_error.                                               *)
(***************************************************************************)
\* last_error e holds a message of get_ssd_temp.
SensorFault(e) ==
    /\ e # None
    /\ Get(e) \in {"Invalid temperature path provided", "Temperature file not found",
                   "Error reading temperature"}
\* last_error e holds a message of init_serial or of set_fan.
ActuatorFault(e) == e # None /\ (HasSerialPort(Get(e)) \/ HasSending(Get(e)))

\* C14: while no sensor read has succeeded yet, a sensor fault in last_error
\* is replaced by a sensor fault only; and while the link is down since the
\* fault, an actuator fault in last_error is replaced by an actuator fault
\* only.
C14_MergedBySubsystem ==
    [][/\ (current_temp = None /\ SensorFault(last_error)) => SensorFault(last_error')
       /\ (ser = "none" /\ ActuatorFault(last_error)) => ActuatorFault(last_error')]_vars

\* C15: from the successful read of a cycle to the end of that cycle
\* last_error holds no sensor fault, and when set_fan has just written its
\* command last_error holds no actuator fault once the result is recorded.
C15_OnlyUnresolved ==
    /\ (InCycle /\ loop.temp # None) => ~SensorFault(last_error)
    /\ (loop.pc = "c_sent" /\ loop.sent) => ~ActuatorFault(last_error)

(***************************************************************************)
(* Properties of the locks and of the stop.                                *)
(***************************************************************************)
\* The thread is in a blocking call: the read of the sensor file, the
\* opening of the port, or the write to it.
Blocking == loop.pc \in {"gt_read", "is_open", "sf_write"}

\* C16: while the controller thread is in a sensor read, in the opening of
\* the port or in a write to it, it does not hold state_lock.
C16_NoLockAcrossCalls == Blocking => state_lock # "loop"
\* A cycle's set_fan is reopening the port.
C16_Witness ==
    /\ loop.pc = "is_open"
    /\ loop.is_ret = "sf_reopened"
    /\ loop.sf_ret = "c_sent"
    /\ state_lock = "free"

\* The thread is past the body of its last cycle.
Stopping == stop_thread /\ loop.pc \in {"wait", "loop_test", "cleanup", "done"}

\* C17: once the stop event is set, the wait at the end of the cycle returns
\* without the clock advancing, the loop test leaves the loop, nothing more
\* is read, written to the relay or appended to the history, the cleanup
\* closes an open port, and the thread ends.
C17_Stop ==
    /\ [][/\ (stop_thread /\ loop.pc = "wait" /\ LoopMoves)
                => (clock' = clock /\ loop'.pc = "loop_test")
          /\ (stop_thread /\ loop.pc = "loop_test" /\ LoopMoves) => loop'.pc = "cleanup"
          /\ Stopping => /\ loop'.pc \in {"wait", "loop_test", "cleanup", "done"}
                          /\ UNCHANGED <<fan_history, fan_state, current_temp, relay>>
          /\ (loop.pc = "cleanup" /\ LoopMoves) => (loop'.pc = "done" /\ ser' # "open")]_vars
    /\ stop_thread ~> (loop.pc = "done" /\ ser # "open")
\* The thread has ended after a stop in the second cycle and closed the port.
C17_Witness ==
    /\ loop.pc = "done"
    /\ stop_thread
    /\ ser = "closed"
    /\ clock = 3000

(***************************************************************************)
(* Properties of the startup.                                              *)
(***************************************************************************)
\* The startup code is over and the first loop test has not been passed:
\* loop.temp is still the startup read.
StartupDone == loop.pc = "loop_test" /\ loop.sf_ret = "loop_test"
\* In the startup call of set_fan.
StartupSetFan == loop.pc \in SetFanPcs /\ loop.sf_ret = "loop_test"

\* C18: at the end of the startup the history holds exactly one event, of
\* the startup instant and of fan_state, and fan_state is ON exactly when
\* the startup read succeeded with a temperature at or above the ceiling
\* read at startup; set_fan is entered once, after the seed, and whatever it
\* returns the thread goes on to the loop test and into the first cycle.
C18_Startup ==
    /\ [](StartupDone =>
             /\ fan_history = <<<<loop.now, fan_state>>>>
             /\ fan_state = (loop.temp # None
                               /\ Get(loop.temp).milli >= loop.local_ceiling.milli)
             /\ loop.temp # None => current_temp = loop.temp)
    /\ [][/\ (~StartupSetFan /\ StartupSetFan') => loop.pc = "s_seed"
          /\ (StartupSetFan /\ LoopMoves) => (StartupSetFan' \/ StartupDone')
          /\ (StartupDone /\ ~stop_thread /\ LoopMoves) => loop'.pc = "c_cfg_acq"]_vars
\* The first cycle begins although the startup ON command was not sent.
C18_Witness ==
    /\ loop.pc = "c_cfg_acq"
    /\ loop.sf_ret = "loop_test"
    /\ ~loop.sent
    /\ fan_state
    /\ relay = None
    /\ fan_history = <<<<0, TRUE>>>>

(***************************************************************************)
(* Properties of the history summary.                                      *)
(***************************************************************************)
RECURSIVE SumOver(_, _)
SumOver(f, S) ==
    IF S = {} THEN 0
    ELSE LET x == CHOOSE y \in S : TRUE IN f[x] + SumOver(f, S \ {x})

\* The boundaries of the spans of the window from start to now: the start
\* and the events after it.
Boundaries(log, start) ==
    {start} \cup {log[i][1] : i \in {j \in DOMAIN log : log[j][1] > start}}

\* The state a span that begins at boundary b is credited to: the current
\* state after the last event, else the state of the latest event at or
\* before b, the earliest event's when there is none.
SpanState(b, log, current) ==
    IF \A i \in DOMAIN log : log[i][1] <= b THEN current
    ELSE LET before == {i \in DOMAIN log : log[i][1] <= b}
         IN  IF before = {} THEN log[1][2]
             ELSE log[CHOOSE i \in before : \A j \in before : j <= i][2]

\* The end of the span that begins at boundary b.
SpanEnd(b, log, start, now) ==
    LET later == {c \in Boundaries(log, start) \cup {now} : c > b}
    IN  IF later = {} THEN b ELSE CHOOSE c \in later : \A d \in later : c <= d

\* The seconds of the window from start to now spent in state.
SpanSeconds(state, log, current, start, now) ==
    LET B == Boundaries(log, start)
    IN  SumOver([b \in B |-> IF SpanState(b, log, current) = state
                             THEN SpanEnd(b, log, start, now) - b ELSE 0], B)

\* The response of a request that has computed one, and what it was asked.
Response == Get(chart.response)
Responded == chart.pc = "h_respond"
CutoffTime == chart.now - chart.local_history_duration
InputsOrdered ==
    /\ TimeOrdered(chart.history_copy_raw)
    /\ \A i \in DOMAIN chart.history_copy_raw : chart.history_copy_raw[i][1] <= chart.now
AggregatorExample ==
    /\ chart.history_copy_raw = <<<<3600, FALSE>>, <<4200, TRUE>>, <<6000, FALSE>>>>
    /\ ~chart.current_fan_state_for_calc
    /\ chart.now = 7200
    /\ CutoffTime = 3600

\* C19: for a time-ordered log with no event later than now, the summary
\* credits each span of its window to the state active during it -- the state
\* at the start of the window, then the state of each later event in turn --
\* and the span after the last event to the current fan state; the events
\* (t0,OFF), (t0+600,ON), (t0+2400,OFF) with the fan OFF over the window from
\* t0 to t0+3600 give 1800 s ON, 1800 s OFF and 50.0% ON.
C19_SpansCredited ==
    (Responded /\ InputsOrdered /\ Response.total_charted_seconds > 0) =>
        /\ Response.total_on_seconds =
               SpanSeconds(TRUE, chart.history_copy_raw, chart.current_fan_state_for_calc,
                           Response.chart_window_start_time, chart.now)
        /\ Response.total_off_seconds =
               SpanSeconds(FALSE, chart.history_copy_raw, chart.current_fan_state_for_calc,
                           Response.chart_window_start_time, chart.now)
        /\ AggregatorExample =>
               /\ Response.total_on_seconds = 1800
               /\ Response.total_off_seconds = 1800
               /\ Response.on_percentage = 500
C19_Witness ==
    /\ Responded
    /\ AggregatorExample
    /\ Response.chart_window_start_time = 3600
    /\ Response.total_on_seconds = 1800
    /\ Response.on_percentage = 500

\* The log is not empty and the window asked for, from the cutoff to now,
\* begins before its first event.
WindowBeforeLog ==
    /\ chart.history_copy_raw # <<>>
    /\ \A i \in DOMAIN chart.history_copy_raw : chart.history_copy_raw[i][1] > CutoffTime

\* C20: when the log is not empty and has no event at or before the start of
\* the window asked for, the summary credits the span from that start to the
\* first event to the first event's state, and the seconds ON and OFF add up
\* to the whole window, now minus its start.
C20_EarliestStateHeld ==
    (Responded /\ InputsOrdered /\ WindowBeforeLog) =>
        /\ Response.total_on_seconds =
               SpanSeconds(TRUE, chart.history_copy_raw, chart.current_fan_state_for_calc,
                           CutoffTime, chart.now)
        /\ Response.total_off_seconds =
               SpanSeconds(FALSE, chart.history_copy_raw, chart.current_fan_state_for_calc,
                           CutoffTime, chart.now)
        /\ Response.total_on_seconds + Response.total_off_seconds = chart.now - CutoffTime

\* C21: when the duration charted is zero, the summary reports 0% ON, 0% OFF
\* and zero seconds for both, whatever the fan state is.
C21_ZeroDuration ==
    (Responded /\ Response.total_charted_seconds = 0) =>
        /\ Response.on_percentage = 0
        /\ Response.off_percentage = 0
        /\ Response.total_on_seconds = 0
        /\ Response.total_off_seconds = 0

\* C22: with an empty log the summary credits the whole window asked for,
\* from the cutoff to now, to the current fan state: a fan ON over a window
\* of 3600 s gives 3600 s ON, 0 s OFF and 100.0% ON, and a fan OFF gives
\* 3600 s OFF, 0 s ON and 100.0% OFF.
C22_EmptyLog ==
    (Responded /\ chart.history_copy_raw = <<>>) =>
        LET window == chart.local_history_duration
            on == chart.current_fan_state_for_calc
        IN  /\ Response.total_charted_seconds = window
            /\ Response.total_on_seconds = IF on THEN window ELSE 0
            /\ Response.total_off_seconds = IF on THEN 0 ELSE window
            /\ Response.on_percentage = IF on THEN 1000 ELSE 0
            /\ Response.off_percentage = IF on THEN 0 ELSE 1000
C22_Witness ==
    /\ Responded
    /\ chart.history_copy_raw = <<>>
    /\ chart.current_fan_state_for_calc
    /\ chart.local_history_duration = 3600
    /\ Response.total_on_seconds = 3600
    /\ Response.total_off_seconds = 0
    /\ Response.on_percentage = 1000

(***************************************************************************)
(* Properties of the requests.                                             *)
(***************************************************************************)
\* A step of a request to the page, to update_settings or to chart_data.
RequestMoves == upd' # upd \/ idx' # idx \/ chart' # chart

\* C23: the fan state, the last temperature, the last error and the log are
\* written by the controller thread only: no step of the page, of
\* update_settings (accepted or refused) or of chart_data changes them.
C23_OnlyLoopWrites ==
    [][RequestMoves => UNCHANGED <<fan_state, current_temp, last_error, fan_history>>]_vars
\* An accepted update, the page and a summary have all been served while the
\* log holds the startup event and a marker.
C23_Witness ==
    /\ upd.pc = "respond" /\ upd.flash = Some("success")
    /\ idx.pc = "render"
    /\ chart.pc = "h_respond"
    /\ Len(fan_history) = 2
    /\ current_temp # None

\* C24: from the startup settings and after any accepted and refused updates,
\* the settings in memory have a floor strictly below the ceiling, a check
\* interval of at least 1 s, a retention of at least 1 h and a sensor path
\* that is not empty.
C24_ConfigInvariant ==
    /\ FloatLT(current_settings.threshold_floor, current_settings.threshold_ceiling)
    /\ current_settings.check_interval_seconds >= 1
    /\ current_settings.history_duration_hours >= 1
    /\ current_settings.temp_path # <<>>

(***************************************************************************)
(* Properties of the fan state and of the log.                             *)
(***************************************************************************)
\* The startup code is over.
AfterStartup == InCycle \/ loop.pc \in {"cleanup", "done"}
\* The last payload the link took is the ON command of some version of the
\* settings.
RelayOn ==
    /\ relay # None
    /\ \E v \in SettingsVersions : Get(relay) = BytesOf(v).open

\* C28: after the startup, a fan state ON means that an ON command has been
\* written to the link and that the last command written was ON.
C28_ConfirmedOn == (AfterStartup /\ fan_state) => RelayOn

\* C29: whenever the log is not empty and state_lock is free, the state of
\* the newest entry of the log is the fan state.
C29_NewestIsState ==
    (fan_history # <<>> /\ state_lock = "free") =>
        fan_history[Len(fan_history)][2] = fan_state
\* A cycle has turned the fan ON and logged it after the startup entry.
C29_Witness ==
    /\ loop.pc = "wait"
    /\ state_lock = "free"
    /\ fan_state
    /\ Len(fan_history) = 2
    /\ ~fan_history[1][2]
    /\ fan_history[2][2]

(***************************************************************************)
(* Properties of a summary asked while the controller thread runs.         *)
(***************************************************************************)
\* C30: however a request to chart_data interleaves with the controller
\* thread, the percentages it reports lie between 0 and 100 and add up to
\* 100, and the seconds ON and OFF add up to the length of the charted window.
C30_ConsistentSummary ==
    Responded =>
        /\ Response.on_percentage \in 0..1000
        /\ Response.off_percentage \in 0..1000
        /\ Response.on_percentage + Response.off_percentage = 1000
        /\ Response.total_on_seconds + Response.total_off_seconds
               = Response.total_charted_seconds

(***************************************************************************)
(* Properties of the two locks together.                                   *)
(***************************************************************************)
Threads == {"loop", "upd", "idx", "chart"}
\* Thread t is at a "with state_lock:" or "with settings_lock:" statement it
\* has not entered yet.
Acquiring(t) ==
    CASE t = "loop" -> loop.pc \in (DOMAIN StateSections) \cup (DOMAIN SettingsSections)
      [] t = "upd" -> upd.pc = "u_acq"
      [] t = "idx" -> idx.pc \in {"idle", "i_cfg_acq"}
      [] t = "chart" -> chart.pc \in {"h_cfg_acq", "h_snap_acq"}
\* Thread t can take a step.
CanStep(t) ==
    CASE t = "loop" -> ENABLED LoopStep
      [] t = "upd" -> ENABLED UpdateStep
      [] t = "idx" -> ENABLED IndexStep
      [] t = "chart" -> ENABLED ChartStep
Holds(t) == state_lock = t \/ settings_lock = t

\* C31: no thread holds state_lock and settings_lock at the same time; a
\* thread that holds one of them is not waiting for a lock and can take its
\* next step, so that no set of threads wait for each other.
C31_NoDeadlock ==
    \A t \in Threads :
        /\ ~(state_lock = t /\ settings_lock = t)
        /\ Holds(t) => (~Acquiring(t) /\ CanStep(t))
\* The two locks are held by two threads while the other two wait: the
\* controller thread reads its settings, the page reads the status, an update
\* and a summary wait for settings_lock.
C31_Witness ==
    /\ settings_lock = "loop"
    /\ state_lock = "idx"
    /\ upd.pc = "u_acq"
    /\ chart.pc = "h_cfg_acq"

====
